---- MODULE Spec2Model ----
(***************************************************************************)
(* Model of the ChatApp component of frontend/src/App.jsx: the React state *)
(* (clientId, messages, input, isConnected, isTyping), the ws ref, the     *)
(* WebSocket objects the component creates with the closures of their      *)
(* handlers, the reconnect timers, the DELETE requests of clearHistory and *)
(* the [clientId] effect.  Each action is one task of the browser's event  *)
(* loop: one handler run to completion.                                    *)
(***************************************************************************)
EXTENDS Integers, Sequences, FiniteSets, TLC

\* ------------------------------------------------------------------ bounds
MaxTime == 1        \* Date.now() ranges over 0..MaxTime
MaxSockets == 2     \* WebSocket objects that have not been fully closed yet
MaxTimers == 2      \* pending setTimeout(connectWebSocket, 3000) timers
MaxMsgs == 3        \* length of the message list
MaxText == 2        \* length of an assistant text assembled from chunks
MaxDeletes == 1     \* DELETE requests of clearHistory in flight

\* --------------------------------------------------------------- constants
Assistant == "Profesor Couoh Chi"
User == "Tú"
System == "System"
WelcomeText == <<"¡Bienvenido al traductor Maya! puedo traducir cualquier frase en cualquier idioma al mayá">>
Welcome == [sender |-> Assistant, text |-> WelcomeText]
InitialMessages == <<Welcome>>

CONNECTING == "CONNECTING"
OPEN == "OPEN"
CLOSING == "CLOSING"
CLOSED == "CLOSED"

NoSocket == 0       \* ws.current = null
NoEffect == -1      \* the effect has not run yet

VARIABLES
    clientId,       \* useState: session identifier (the time it was minted)
    messages,       \* useState: sequence of [sender, text]
    input,          \* useState: text of the input field
    isConnected,    \* useState
    isTyping,       \* useState
    wsCurrent,      \* ws.current: a socket slot, or NoSocket for null
    sockets,        \* slot -> [readyState, cid]; cid is the clientId of
                    \* the connectWebSocket closure that created the socket
    timers,         \* FIFO of pending retry timers, each the clientId of the
                    \* connectWebSocket closure it will call
    dispatch,       \* socket whose close event follows its error event in
                    \* the same task, or NoSocket
    sent,           \* observer: the frames the last step handed to ws.send
    pendingDeletes, \* clearHistory calls awaiting their fetch
    effectCid,      \* clientId the [clientId] effect last ran for, or NoEffect
    mounted,        \* the component has not been torn down
    now,            \* Date.now()
    run,            \* observer: progress of a start, chunk, chunk, end run
    awaiting,       \* observer: a frame was sent on the open socket and no
                    \* end or error frame has come since
    fresh           \* observer: a socket was created on the current clientId
                    \* since the last successful clearHistory

vars == <<clientId, messages, input, isConnected, isTyping, wsCurrent,
          sockets, timers, dispatch, sent, pendingDeletes, effectCid,
          mounted, now, run, awaiting, fresh>>

Slots == 1..MaxSockets

\* ------------------------------------------------------------ input values
\* texts typed in the input field: empty, blank, and a padded word
Inputs == {<<>>, <<" ">>, <<" ", "a", " ">>}
Contents == {<<>>, <<"a">>, <<"b">>}
Errors == {<<>>, <<"e">>}

NoType == "undefined"
StartFrame == [type |-> "start", content |-> <<>>, error |-> <<>>]
EndFrame == [type |-> "end", content |-> <<>>, error |-> <<>>]
ChunkFrame(c) == [type |-> "chunk", content |-> c, error |-> <<>>]
ErrorFrame(e) == [type |-> NoType, content |-> <<>>, error |-> e]
Frames == {StartFrame, EndFrame} \cup {ChunkFrame(c) : c \in Contents}
              \cup {ErrorFrame(e) : e \in Errors}

\* ---------------------------------------------------------- pure functions
IsSpace(c) == c = " "

RECURSIVE trimStart(_)
trimStart(s) ==
    IF s = <<>> THEN <<>>
    ELSE IF IsSpace(Head(s)) THEN trimStart(Tail(s)) ELSE s

RECURSIVE trimEnd(_)
trimEnd(s) ==
    IF s = <<>> THEN <<>>
    ELSE IF IsSpace(s[Len(s)]) THEN trimEnd(SubSeq(s, 1, Len(s) - 1)) ELSE s

trim(s) == trimEnd(trimStart(s))

Truthy(s) == s # <<>>

\* lastMessage of the updater is undefined on an empty list
hasLast(prevMessages) == prevMessages # <<>>

\* onmessageUpdater with the fragment put in front of the text
onmessageUpdater_Prepend(prevMessages, data) ==
    LET lastMessageIndex == Len(prevMessages)
        last == prevMessages[lastMessageIndex]
    IN  IF data.type = "start"
        THEN IF ~hasLast(prevMessages) \/ last.sender # Assistant \/ last.text # <<>>
             THEN Append(prevMessages, [sender |-> Assistant, text |-> <<>>])
             ELSE prevMessages
        ELSE IF data.type = "chunk" /\ Truthy(data.content)
        THEN IF hasLast(prevMessages) /\ last.sender = Assistant
             THEN [prevMessages EXCEPT ![lastMessageIndex] =
                      [sender |-> last.sender,
                       text |-> data.content \o last.text]]
             ELSE prevMessages
        ELSE IF data.type = "end"
        THEN prevMessages
        ELSE IF Truthy(data.error)
        THEN Append(prevMessages,
                    [sender |-> System, text |-> <<"Error: ">> \o data.error])
        ELSE prevMessages

\* onmessageUpdater whose start always opens a new message
onmessageUpdater_AlwaysAppend(prevMessages, data) ==
    LET lastMessageIndex == Len(prevMessages)
        last == prevMessages[lastMessageIndex]
    IN  IF data.type = "start"
        THEN Append(prevMessages, [sender |-> Assistant, text |-> <<>>])
        ELSE IF data.type = "chunk" /\ Truthy(data.content)
        THEN IF hasLast(prevMessages) /\ last.sender = Assistant
             THEN [prevMessages EXCEPT ![lastMessageIndex] =
                      [sender |-> last.sender,
                       text |-> last.text \o data.content]]
             ELSE prevMessages
        ELSE IF data.type = "end"
        THEN prevMessages
        ELSE IF Truthy(data.error)
        THEN Append(prevMessages,
                    [sender |-> System, text |-> <<"Error: ">> \o data.error])
        ELSE prevMessages

\* the updater passed to setMessages in ws.current.onmessage
onmessageUpdater(prevMessages, data) ==
    LET lastMessageIndex == Len(prevMessages)
        last == prevMessages[lastMessageIndex]
    IN  IF data.type = "start"
        THEN IF ~hasLast(prevMessages) \/ last.sender # Assistant \/ last.text # <<>>
             THEN Append(prevMessages, [sender |-> Assistant, text |-> <<>>])
             ELSE prevMessages
        ELSE IF data.type = "chunk" /\ Truthy(data.content)
        THEN IF hasLast(prevMessages) /\ last.sender = Assistant
             THEN [prevMessages EXCEPT ![lastMessageIndex] =
                      [sender |-> last.sender,
                       text |-> last.text \o data.content]]
             ELSE prevMessages
        ELSE IF data.type = "end"
        THEN prevMessages
        ELSE IF Truthy(data.error)
        THEN Append(prevMessages,
                    [sender |-> System, text |-> <<"Error: ">> \o data.error])
        ELSE prevMessages

\* the setIsTyping calls, with one made for a chunk as well
onmessageTyping_Chunk(typing, data) ==
    IF data.type = "start" THEN TRUE
    ELSE IF data.type = "chunk" /\ Truthy(data.content) THEN TRUE
    ELSE IF data.type = "end" THEN FALSE
    ELSE IF Truthy(data.error) THEN FALSE
    ELSE typing

\* the setIsTyping calls made inside that updater
onmessageTyping(typing, data) ==
    IF data.type = "start" THEN TRUE
    ELSE IF data.type = "chunk" /\ Truthy(data.content) THEN typing
    ELSE IF data.type = "end" THEN FALSE
    ELSE IF Truthy(data.error) THEN FALSE
    ELSE typing

\* --------------------------------------------------------------- sockets
Live(s) == sockets[s].readyState \in {CONNECTING, OPEN}

CurrentLive == wsCurrent # NoSocket /\ Live(wsCurrent)

\* WebSocket.close(): no effect on a socket that is closing or closed
closeSocket(socks, s) ==
    IF s # NoSocket /\ socks[s].readyState \in {CONNECTING, OPEN}
    THEN [socks EXCEPT ![s].readyState = CLOSING]
    ELSE socks

\* a state setter: ignored once the component is torn down
SetState(old, new) == IF mounted THEN new ELSE old

IdleRun == [stage |-> 0, base |-> 0, open |-> FALSE, a |-> <<>>, b |-> <<>>]

\* stage -1: a close event has just ended a stream that was in progress
CutRun == [IdleRun EXCEPT !.stage = -1]

\* a sent frame still awaits its reply only while its socket is OPEN
stillAwaiting(socks) ==
    awaiting /\ \E s \in DOMAIN socks : socks[s].readyState = OPEN

\* connectWebSocket has just created a socket on the current clientId

\* ------------------------------------------------------------------- Init
Init ==
    /\ now = 0
    /\ clientId = 0
    /\ messages = InitialMessages
    /\ input = <<>>
    /\ isConnected = FALSE
    /\ isTyping = FALSE
    /\ wsCurrent = NoSocket
    /\ sockets = [s \in Slots |-> [readyState |-> CLOSED, cid |-> 0]]
    /\ timers = <<>>
    /\ dispatch = NoSocket
    /\ sent = <<>>
    /\ pendingDeletes = 0
    /\ effectCid = NoEffect
    /\ mounted = TRUE
    /\ run = IdleRun
    /\ awaiting = FALSE
    /\ fresh = TRUE

\* --------------------------------------------------------------- actions
\* connectWebSocket of the render whose clientId is cid, applied to socket
\* table socks: the socket table and ws.current after the call
\* the guard of connectWebSocket without its CONNECTING test
connectCreates_OpenOnly(socks) ==
    ~(wsCurrent # NoSocket /\ socks[wsCurrent].readyState = OPEN)

connectCreates(socks) ==
    ~(wsCurrent # NoSocket /\ socks[wsCurrent].readyState \in {OPEN, CONNECTING})

connectWebSocket(socks, cid) ==
    IF connectCreates(socks)
    THEN /\ \E s \in Slots : socks[s].readyState = CLOSED /\ dispatch # s
         /\ LET s == CHOOSE t \in Slots :
                        /\ socks[t].readyState = CLOSED /\ dispatch # t
                        /\ \A u \in Slots :
                               socks[u].readyState = CLOSED /\ dispatch # u => t <= u
            IN  /\ sockets' = [socks EXCEPT ![s] =
                       [readyState |-> CONNECTING, cid |-> cid]]
                /\ wsCurrent' = s
    ELSE /\ sockets' = socks
         /\ wsCurrent' = wsCurrent

\* connectWebSocket has just created a socket on the current clientId
createdOn(socks, cid) == connectCreates(socks) /\ cid = clientId

\* the clock advances
Tick ==
    /\ now < MaxTime
    /\ now' = now + 1
    /\ sent' = <<>>
    /\ UNCHANGED <<awaiting, fresh>>
    /\ UNCHANGED <<clientId, messages, input, isConnected, isTyping, wsCurrent,
                   sockets, timers, dispatch, pendingDeletes,
                   effectCid, mounted, run>>

\* useEffect(..., [clientId]): cleanup of the previous run, then connect
RunEffect ==
    /\ dispatch = NoSocket
    /\ mounted
    /\ effectCid # clientId
    /\ LET cleaned == IF effectCid = NoEffect THEN sockets
                      ELSE closeSocket(sockets, wsCurrent)
       IN  connectWebSocket(cleaned, clientId)
    /\ effectCid' = clientId
    /\ run' = IdleRun
    /\ sent' = <<>>
    /\ awaiting' = stillAwaiting(IF effectCid = NoEffect THEN sockets
                                  ELSE closeSocket(sockets, wsCurrent))
    /\ fresh' = (fresh \/ createdOn(IF effectCid = NoEffect THEN sockets
                                      ELSE closeSocket(sockets, wsCurrent),
                                      clientId))
    /\ UNCHANGED <<clientId, messages, input, isConnected, isTyping, timers,
                   dispatch, pendingDeletes, mounted, now>>

\* ws.current.onopen
OnOpen(s) ==
    /\ dispatch = NoSocket
    /\ sockets[s].readyState = CONNECTING
    /\ sockets' = [sockets EXCEPT ![s].readyState = OPEN]
    /\ isConnected' = SetState(isConnected, TRUE)
    /\ run' = IdleRun
    /\ sent' = <<>>
    /\ UNCHANGED <<awaiting, fresh>>
    /\ UNCHANGED <<clientId, messages, input, isTyping, wsCurrent, timers,
                   dispatch, pendingDeletes, effectCid, mounted, now>>

\* the last message is an assistant message with empty text
lastIsOpen(msgs) ==
    /\ msgs # <<>>
    /\ msgs[Len(msgs)].sender = Assistant
    /\ msgs[Len(msgs)].text = <<>>

\* the observer of a run start, chunk(a), chunk(b), end on the current socket:
\* stage counts the frames of the run received so far, base and open are the
\* length of the list and lastIsOpen when its start frame arrived
runAfter(s, data) ==
    IF s # wsCurrent \/ ~mounted THEN IdleRun
    ELSE IF data = StartFrame
    THEN [stage |-> 1, base |-> Len(messages), open |-> lastIsOpen(messages),
          a |-> <<>>, b |-> <<>>]
    ELSE IF data.type = "chunk" /\ Truthy(data.content) /\ run.stage = 1
    THEN [run EXCEPT !.stage = 2, !.a = data.content]
    ELSE IF data.type = "chunk" /\ Truthy(data.content) /\ run.stage = 2
    THEN [run EXCEPT !.stage = 3, !.b = data.content]
    ELSE IF data = EndFrame /\ run.stage = 3
    THEN [run EXCEPT !.stage = 4]
    ELSE IdleRun

\* ws.current.onmessage: a frame is delivered only while the socket is OPEN
OnMessage(s, data) ==
    /\ dispatch = NoSocket
    /\ sockets[s].readyState = OPEN
    /\ Len(onmessageUpdater(messages, data)) <= MaxMsgs
    /\ \A i \in 1..Len(messages) :
           Len(onmessageUpdater(messages, data)[i].text) <= MaxText
              \/ onmessageUpdater(messages, data)[i] = messages[i]
    /\ messages' = SetState(messages, onmessageUpdater(messages, data))
    /\ isTyping' = SetState(isTyping, onmessageTyping(isTyping, data))
    /\ run' = runAfter(s, data)
    /\ sent' = <<>>
    /\ awaiting' = (awaiting /\ ~(mounted /\ (data = EndFrame \/ Truthy(data.error))))
    /\ fresh' = fresh
    /\ UNCHANGED <<clientId, input, isConnected, wsCurrent, sockets, timers,
                   dispatch, pendingDeletes, effectCid, mounted, now>>

\* ws.current.onerror: the connection failed; its close event follows in the
\* same task
OnError(s) ==
    /\ dispatch = NoSocket
    /\ sockets[s].readyState \in {CONNECTING, OPEN, CLOSING}
    /\ Len(timers) < MaxTimers
    /\ sockets' = [sockets EXCEPT ![s].readyState = CLOSED]
    /\ dispatch' = s
    /\ isConnected' = SetState(isConnected, FALSE)
    /\ run' = IdleRun
    /\ sent' = <<>>
    /\ awaiting' = stillAwaiting(sockets')
    /\ fresh' = fresh
    /\ UNCHANGED <<clientId, messages, input, isTyping, wsCurrent, timers,
                   pendingDeletes, effectCid, mounted, now>>

\* onclose without the retry
OnClose_NoRetry(s) ==
    /\ \/ dispatch = s
       \/ dispatch = NoSocket /\ sockets[s].readyState \in {CONNECTING, OPEN, CLOSING}
    /\ Len(timers) < MaxTimers
    /\ sockets' = [sockets EXCEPT ![s] = [readyState |-> CLOSED, cid |-> 0]]
    /\ dispatch' = NoSocket
    /\ isConnected' = SetState(isConnected, FALSE)
    /\ isTyping' = SetState(isTyping, FALSE)
    /\ timers' = timers
    /\ run' = IF mounted /\ isTyping THEN CutRun ELSE IdleRun
    /\ sent' = <<>>
    /\ awaiting' = stillAwaiting(sockets')
    /\ fresh' = fresh
    /\ UNCHANGED <<clientId, messages, input, wsCurrent,
                   pendingDeletes, effectCid, mounted, now>>

\* onclose without setIsTyping(false)
OnClose_KeepTyping(s) ==
    /\ \/ dispatch = s
       \/ dispatch = NoSocket /\ sockets[s].readyState \in {CONNECTING, OPEN, CLOSING}
    /\ Len(timers) < MaxTimers
    /\ sockets' = [sockets EXCEPT ![s] = [readyState |-> CLOSED, cid |-> 0]]
    /\ dispatch' = NoSocket
    /\ isConnected' = SetState(isConnected, FALSE)
    /\ timers' = Append(timers, sockets[s].cid)
    /\ run' = IF mounted /\ isTyping THEN CutRun ELSE IdleRun
    /\ sent' = <<>>
    /\ awaiting' = stillAwaiting(sockets')
    /\ fresh' = fresh
    /\ UNCHANGED <<clientId, messages, input, isTyping, wsCurrent,
                   pendingDeletes, effectCid, mounted, now>>

\* ws.current.onclose
OnClose(s) ==
    /\ \/ dispatch = s
       \/ dispatch = NoSocket /\ sockets[s].readyState \in {CONNECTING, OPEN, CLOSING}
    /\ Len(timers) < MaxTimers
    /\ sockets' = [sockets EXCEPT ![s] = [readyState |-> CLOSED, cid |-> 0]]
    /\ dispatch' = NoSocket
    /\ isConnected' = SetState(isConnected, FALSE)
    /\ isTyping' = SetState(isTyping, FALSE)
    /\ timers' = Append(timers, sockets[s].cid)
    /\ run' = IF mounted /\ isTyping THEN CutRun ELSE IdleRun
    /\ sent' = <<>>
    /\ awaiting' = stillAwaiting(sockets')
    /\ fresh' = fresh
    /\ UNCHANGED <<clientId, messages, input, wsCurrent, pendingDeletes, effectCid, mounted, now>>

\* a retry timer that does nothing for a torn-down component
TimerFire_Guarded ==
    /\ dispatch = NoSocket
    /\ timers # <<>>
    /\ IF mounted THEN connectWebSocket(sockets, Head(timers))
       ELSE UNCHANGED <<sockets, wsCurrent>>
    /\ timers' = Tail(timers)
    /\ run' = IdleRun
    /\ sent' = <<>>
    /\ awaiting' = awaiting
    /\ fresh' = (fresh \/ (mounted /\ createdOn(sockets, Head(timers))))
    /\ UNCHANGED <<clientId, messages, input, isConnected, isTyping, dispatch,
                   pendingDeletes, effectCid, mounted, now>>

\* a retry timer fires: setTimeout(connectWebSocket, 3000)
TimerFire ==
    /\ dispatch = NoSocket
    /\ timers # <<>>
    /\ connectWebSocket(sockets, Head(timers))
    /\ timers' = Tail(timers)
    /\ run' = IdleRun
    /\ sent' = <<>>
    /\ awaiting' = awaiting
    /\ fresh' = (fresh \/ ( createdOn(sockets, Head(timers))))
    /\ UNCHANGED <<clientId, messages, input, isConnected, isTyping, dispatch,
                   pendingDeletes, effectCid, mounted, now>>

\* onChange of the input field, which is disabled={!isConnected || isTyping}
SetInput(v) ==
    /\ dispatch = NoSocket
    /\ mounted
    /\ isConnected /\ ~isTyping
    /\ v # input
    /\ input' = v
    /\ run' = IdleRun
    /\ sent' = <<>>
    /\ UNCHANGED <<awaiting, fresh>>
    /\ UNCHANGED <<clientId, messages, isConnected, isTyping, wsCurrent,
                   sockets, timers, dispatch, pendingDeletes,
                   effectCid, mounted, now>>

sendRejected == trim(input) = <<>> \/ ~isConnected \/ isTyping

\* sendMessage (onSubmit of the form)
sendMessage ==
    /\ dispatch = NoSocket
    /\ mounted
    /\ run' = IdleRun
    /\ LET textToSend == trim(input)
       IN  IF sendRejected
           THEN /\ sent' = <<>>
                /\ UNCHANGED <<messages, input>>
           ELSE /\ Len(messages) < MaxMsgs
                /\ messages' = Append(messages, [sender |-> User, text |-> textToSend])
                /\ IF wsCurrent # NoSocket /\ sockets[wsCurrent].readyState = OPEN
                   THEN sent' = <<[sock |-> wsCurrent, text |-> textToSend]>>
                   ELSE sent' = <<>>
                /\ input' = <<>>
    /\ awaiting' = (awaiting \/ sent' # <<>>)
    /\ fresh' = fresh
    /\ UNCHANGED <<clientId, isConnected, isTyping, wsCurrent, sockets, timers,
                   dispatch, pendingDeletes, effectCid, mounted, now>>

\* clearHistory up to its await: the button is disabled={!isConnected}
clearHistoryStart ==
    /\ dispatch = NoSocket
    /\ mounted
    /\ isConnected
    /\ pendingDeletes < MaxDeletes
    /\ pendingDeletes' = pendingDeletes + 1
    /\ run' = IdleRun
    /\ sent' = <<>>
    /\ UNCHANGED <<awaiting, fresh>>
    /\ UNCHANGED <<clientId, messages, input, isConnected, isTyping, wsCurrent,
                   sockets, timers, dispatch, effectCid, mounted, now>>

\* `client-${Date.now()}`
newClientId == now

\* clearHistory after the await, response.ok
clearHistoryOk ==
    /\ dispatch = NoSocket
    /\ pendingDeletes > 0
    /\ pendingDeletes' = pendingDeletes - 1
    /\ sockets' = closeSocket(sockets, wsCurrent)
    /\ clientId' = SetState(clientId, newClientId)
    /\ messages' = SetState(messages, <<Welcome>>)
    /\ run' = IdleRun
    /\ sent' = <<>>
    /\ awaiting' = stillAwaiting(sockets')
    /\ fresh' = (fresh /\ ~mounted)
    /\ UNCHANGED <<input, isConnected, isTyping, wsCurrent, timers, dispatch,
                   effectCid, mounted, now>>

FailureText(networkError) ==
    IF networkError THEN <<"Error de conexión.">>
    ELSE <<"Error al borrar historial.">>

\* clearHistoryFail that also gives up the connection
clearHistoryFail_Close(networkError) ==
    /\ dispatch = NoSocket
    /\ pendingDeletes > 0
    /\ Len(messages) < MaxMsgs
    /\ pendingDeletes' = pendingDeletes - 1
    /\ messages' = SetState(messages,
           Append(messages, [sender |-> System, text |-> FailureText(networkError)]))
    /\ sockets' = closeSocket(sockets, wsCurrent)
    /\ run' = IdleRun
    /\ sent' = <<>>
    /\ awaiting' = stillAwaiting(sockets')
    /\ fresh' = fresh
    /\ UNCHANGED <<clientId, input, isConnected, isTyping, wsCurrent,
                   timers, dispatch, effectCid, mounted, now>>

\* clearHistory after the await: !response.ok, or fetch threw
clearHistoryFail(networkError) ==
    /\ dispatch = NoSocket
    /\ pendingDeletes > 0
    /\ Len(messages) < MaxMsgs
    /\ pendingDeletes' = pendingDeletes - 1
    /\ messages' = SetState(messages,
           Append(messages, [sender |-> System, text |-> FailureText(networkError)]))
    /\ run' = IdleRun
    /\ sent' = <<>>
    /\ UNCHANGED <<awaiting, fresh>>
    /\ UNCHANGED <<clientId, input, isConnected, isTyping, wsCurrent, sockets,
                   timers, dispatch, effectCid, mounted, now>>

\* the component is torn down: the cleanup of the effect runs and the state
\* of the component is discarded (later setter calls have no effect)
Unmount ==
    /\ dispatch = NoSocket
    /\ mounted
    /\ mounted' = FALSE
    /\ sockets' = IF effectCid = NoEffect THEN sockets
                  ELSE closeSocket(sockets, wsCurrent)
    /\ clientId' = 0
    /\ messages' = <<>>
    /\ input' = <<>>
    /\ isConnected' = FALSE
    /\ isTyping' = FALSE
    /\ effectCid' = NoEffect
    /\ run' = IdleRun
    /\ sent' = <<>>
    /\ awaiting' = FALSE
    /\ fresh' = TRUE
    /\ UNCHANGED <<wsCurrent, timers, dispatch, pendingDeletes, now>>

Next ==
    \/ Tick
    \/ RunEffect
    \/ \E s \in Slots : OnOpen(s)
    \/ \E s \in Slots : \E data \in Frames : OnMessage(s, data)
    \/ \E s \in Slots : OnError(s)
    \/ \E s \in Slots : OnClose(s)
    \/ TimerFire
    \/ \E v \in Inputs : SetInput(v)
    \/ sendMessage
    \/ clearHistoryStart
    \/ clearHistoryOk
    \/ \E networkError \in BOOLEAN : clearHistoryFail(networkError)
    \/ Unmount

Spec == Init /\ [][Next]_vars

\* -------------------------------------------------------------- claims
last(msgs) == msgs[Len(msgs)]

\* C1 (as stated): after start, chunk(a), chunk(b), end on the current socket
\* the last message is an assistant message with text a \o b, exactly one
\* message was added to the list for the run, and isTyping is false.
C1_OneMessageAdded ==
    run.stage = 4 =>
        /\ ~isTyping
        /\ messages # <<>>
        /\ last(messages) = [sender |-> Assistant, text |-> run.a \o run.b]
        /\ Len(messages) = run.base + 1

\* C1 (amended): after start, chunk(a), chunk(b), end on the current socket
\* the last message is an assistant message with text a \o b and isTyping is
\* false; one assistant message was added for the run, unless the last
\* message before start was an assistant message with empty text, which is
\* then the one that receives the text and no message is added.
C1_StreamAssembly ==
    run.stage = 4 =>
        /\ ~isTyping
        /\ messages # <<>>
        /\ last(messages) = [sender |-> Assistant, text |-> run.a \o run.b]
        /\ Len(messages) = IF run.open THEN run.base ELSE run.base + 1

C1_Witness == run.stage = 4 /\ run.a # run.b /\ ~run.open


\* C2: a chunk frame received while no stream is open (isTyping is false)
\* leaves the message list exactly as it was.
C2_ChunkDroppedWhenIdle ==
    [][\A s \in Slots : \A c \in Contents :
          (OnMessage(s, ChunkFrame(c)) /\ mounted /\ ~isTyping)
              => messages' = messages]_vars

SocketOpen == wsCurrent # NoSocket /\ sockets[wsCurrent].readyState = OPEN

\* C3: a sendMessage call made while the trimmed input is empty, or the
\* socket connection is not open, or a stream is in progress, appends no
\* message and sends no frame.
C3_SubmissionRejected ==
    [][(sendMessage /\ (trim(input) = <<>> \/ ~SocketOpen \/ isTyping))
          => (messages' = messages /\ sent' = <<>>)]_vars

\* C4: after clearHistory completes with an ok response the message list is
\* exactly the welcome message and clientId differs from the one before.
C4_SuccessfulReset ==
    [][(clearHistoryOk /\ mounted)
          => (messages' = <<Welcome>> /\ clientId' # clientId)]_vars

\* C5: a failed reset appends exactly one System message, keeps every prior
\* message, and leaves clientId, ws.current, isConnected, isTyping and every
\* socket as they were.
C5_FailedReset ==
    [][\A networkError \in BOOLEAN :
          (clearHistoryFail(networkError) /\ mounted)
              => /\ Len(messages') = Len(messages) + 1
                 /\ SubSeq(messages', 1, Len(messages)) = messages
                 /\ last(messages').sender = System
                 /\ UNCHANGED <<clientId, wsCurrent, sockets, isConnected,
                                isTyping, timers>>]_vars

C5_Witness ==
    /\ mounted
    /\ Len(messages) > 1
    /\ last(messages) = [sender |-> System, text |-> FailureText(TRUE)]
    /\ isTyping
    /\ SocketOpen

LiveSockets == {s \in Slots : Live(s)}

\* C6: at most one socket is CONNECTING or OPEN in every reachable state, and
\* a connectWebSocket call (from a retry timer) that finds ws.current OPEN or
\* CONNECTING creates no socket and changes no state.
C6_SingleLiveConnection ==
    /\ [](Cardinality(LiveSockets) <= 1)
    /\ [][(TimerFire /\ CurrentLive)
            => UNCHANGED <<clientId, messages, input, isConnected, isTyping,
                           wsCurrent, sockets, dispatch, pendingDeletes,
                           effectCid, mounted>>]_vars

\* a retry timer is pending while ws.current is OPEN
C6_Witness ==
    /\ SocketOpen
    /\ timers # <<>>

\* the close event of ws.current has been handled
CurrentClosed ==
    /\ wsCurrent # NoSocket
    /\ sockets[wsCurrent].readyState = CLOSED
    /\ dispatch # wsCurrent

CurrentConnecting ==
    wsCurrent # NoSocket /\ sockets[wsCurrent].readyState = CONNECTING

\* timers fire, and a close event follows its error event
FairSpec ==
    /\ Spec
    /\ WF_vars(TimerFire)
    /\ WF_vars(\E s \in Slots : dispatch = s /\ OnClose(s))

\* C7: every close event marks the client disconnected and schedules exactly
\* one retry timer; a timer that fires makes a new connection attempt unless
\* ws.current is OPEN or CONNECTING; an error event marks disconnected and
\* schedules nothing; and, timers firing fairly, whenever the current socket
\* has closed a new connection attempt follows.
C7_ReconnectPolicy ==
    /\ [][\A s \in Slots : OnClose(s)
              => /\ mounted => ~isConnected'
                 /\ timers' = Append(timers, sockets[s].cid)]_vars
    /\ [][\A s \in Slots : OnError(s)
              => /\ mounted => ~isConnected'
                 /\ UNCHANGED <<timers, wsCurrent, isTyping, messages, clientId>>
                 /\ \A t \in Slots : ~Live(t) => sockets'[t] = IF t = s
                        THEN [sockets[t] EXCEPT !.readyState = CLOSED]
                        ELSE sockets[t]]_vars
    /\ [][TimerFire
              => \/ CurrentLive /\ UNCHANGED <<sockets, wsCurrent>>
                 \/ /\ ~CurrentLive
                    /\ sockets'[wsCurrent'] =
                           [readyState |-> CONNECTING, cid |-> Head(timers)]]_vars
    /\ (CurrentClosed ~> CurrentConnecting)

C7_Witness ==
    /\ CurrentClosed
    /\ Len(timers) = 2
    /\ mounted

\* C8: every socket in the CONNECTING or OPEN state was opened on the URL of
\* the current clientId.
C8_ScopedToSession ==
    mounted => \A s \in Slots : Live(s) => sockets[s].cid = clientId

\* C9: while a stream is in progress the message list is non-empty and its
\* last element is an assistant message.
C9_OpenMessageIsLast ==
    (mounted /\ isTyping) =>
        (messages # <<>> /\ last(messages).sender = Assistant)

OnStart == \E s \in Slots : OnMessage(s, StartFrame)
OnEnd == \E s \in Slots : OnMessage(s, EndFrame)
OnErrorFrame == \E s \in Slots : \E e \in Errors : OnMessage(s, ErrorFrame(e))

\* C10 (as stated): isTyping becomes true only on a start frame and false
\* only on an end frame or an error frame; a start frame leaves it true.
C10_TypingOnlyByFrames ==
    [][(mounted /\ mounted')
          => /\ (~isTyping /\ isTyping') => OnStart
             /\ (isTyping /\ ~isTyping') => (OnEnd \/ OnErrorFrame)
             /\ OnStart => isTyping']_vars

\* C10 (amended): isTyping becomes true only on a start frame and false only
\* on an end frame, an error frame or a socket close event; a start frame
\* leaves it true; socket open, transport error, submission and reset do
\* not change it.
C10_TypingStateMachine ==
    [][(mounted /\ mounted')
          => /\ (~isTyping /\ isTyping') => OnStart
             /\ (isTyping /\ ~isTyping')
                   => (OnEnd \/ OnErrorFrame \/ \E s \in Slots : OnClose(s))
             /\ OnStart => isTyping']_vars

\* a stream was cut by a close event: the open message is still empty
C10_Witness ==
    /\ mounted
    /\ ~isTyping
    /\ lastIsOpen(messages)
    /\ CurrentClosed

\* C11: no submission is accepted and sent while an earlier sent submission
\* still awaits the end of its reply (no end frame, error frame or close of
\* the connection since it was sent).
C11_OneOutstandingExchange ==
    [][(sendMessage /\ sent' # <<>>) => ~awaiting]_vars

\* C12: every sendMessage call that is not rejected appends one user message
\* with the trimmed input, sends that text as one frame on the current open
\* socket and clears the input.
C12_AppendAndTransmit ==
    [][(sendMessage /\ ~sendRejected)
          => /\ messages' = Append(messages, [sender |-> User, text |-> trim(input)])
             /\ sent' = <<[sock |-> wsCurrent, text |-> trim(input)]>>
             /\ SocketOpen
             /\ input' = <<>>]_vars

\* C13: an error frame sets isTyping to false and appends exactly one System
\* message with the error text; prior messages, clientId and the sockets are
\* unchanged.
C13_StreamError ==
    [][\A s \in Slots : \A e \in Errors :
          (OnMessage(s, ErrorFrame(e)) /\ mounted)
              => /\ ~isTyping'
                 /\ messages' = Append(messages,
                        [sender |-> System, text |-> <<"Error: ">> \o e])
                 /\ UNCHANGED <<clientId, wsCurrent, sockets>>]_vars

\* sockets hold their state: a socket that is closing or closed never opens
SocketsNeverReopen ==
    \A s \in Slots :
        sockets[s].readyState \in {CLOSING, CLOSED} => sockets'[s].readyState # OPEN

\* timers fire, every close event that is due arrives, and a scheduled effect
\* runs even though socket events keep being handled before it
FairSpecEffect ==
    /\ FairSpec
    /\ SF_vars(RunEffect)
    /\ WF_vars(\E s \in Slots : sockets[s].readyState = CLOSING /\ OnClose(s))

\* C14: a successful reset leaves the socket that was current closing or
\* closed, no frame is ever sent on a socket that is not OPEN and such a
\* socket never opens again, and a new socket is eventually created on the
\* new clientId.
C14_ResetReconnects ==
    /\ [][(clearHistoryOk /\ mounted) => ~CurrentLive']_vars
    /\ [][(sent' # <<>>) => (SocketOpen /\ sent'[1].sock = wsCurrent)]_vars
    /\ [][SocketsNeverReopen]_vars
    /\ ((mounted /\ ~fresh) ~> (fresh \/ ~mounted))

\* C15: every step other than a successful reset leaves the message list
\* unchanged, appends one element, or extends the text of the last element;
\* the last only when that element is an assistant message and a stream is
\* in progress.
C15_AppendOnly ==
    [][(mounted /\ mounted' /\ ~clearHistoryOk)
          => \/ messages' = messages
             \/ /\ Len(messages') = Len(messages) + 1
                /\ SubSeq(messages', 1, Len(messages)) = messages
             \/ /\ Len(messages') = Len(messages)
                /\ messages # <<>>
                /\ SubSeq(messages', 1, Len(messages) - 1)
                       = SubSeq(messages, 1, Len(messages) - 1)
                /\ last(messages).sender = Assistant
                /\ last(messages').sender = Assistant
                /\ Len(last(messages').text) > Len(last(messages).text)
                /\ SubSeq(last(messages').text, 1, Len(last(messages).text))
                       = last(messages).text
                /\ isTyping]_vars

\* C16: a start frame appends an empty assistant message unless the last
\* message is already one, and then leaves the list unchanged; a start frame
\* that follows a start frame changes nothing; isTyping is true afterwards.
C16_IdempotentStart ==
    [][(OnStart /\ mounted)
          => /\ messages' = IF lastIsOpen(messages) THEN messages
                             ELSE Append(messages, [sender |-> Assistant, text |-> <<>>])
             /\ run.stage = 1 => messages' = messages
             /\ isTyping'
             /\ lastIsOpen(messages')]_vars

\* a start frame has just found the open message of the start before it
C16_Witness == mounted /\ run.stage = 1 /\ run.open /\ isTyping

\* every socket event that is due has been delivered
Quiescent ==
    /\ dispatch = NoSocket
    /\ \A s \in Slots : sockets[s].readyState \in {OPEN, CLOSED}

\* C17: once all pending socket events are delivered, isConnected is true
\* exactly when ws.current is OPEN.
C17_FlagTracksSocket ==
    (mounted /\ Quiescent) => (isConnected <=> SocketOpen)

\* C18: a close event sets isTyping and isConnected to false and keeps the
\* messages, so isTyping is true only while a socket is open or its close
\* event is still to come; with the connection open again and isTyping false
\* a non-blank submission is accepted.
C18_CloseEndsTyping ==
    /\ [][\A s \in Slots : (OnClose(s) /\ mounted)
              => (~isTyping' /\ ~isConnected' /\ messages' = messages)]_vars
    /\ []((mounted /\ isTyping)
            => \E s \in Slots :
                   sockets[s].readyState \in {OPEN, CLOSING} \/ dispatch = s)
    /\ [][(sendMessage /\ trim(input) # <<>> /\ isConnected /\ ~isTyping)
              => messages' = Append(messages,
                     [sender |-> User, text |-> trim(input)])]_vars

\* a close event has just cut a stream and the partial reply is kept
C18_Witness ==
    /\ mounted
    /\ run = CutRun
    /\ ~isTyping /\ ~isConnected
    /\ last(messages) = [sender |-> Assistant, text |-> <<"a">>]

\* C19: the cleanup of a torn-down component closes the current socket, the
\* close handler still schedules the retry, and the timer, which is not
\* guarded, creates a new socket for the disposed instance, after every
\* later close as well.
C19_TeardownKeepsRetrying ==
    /\ [][(Unmount /\ effectCid # NoEffect) => ~CurrentLive']_vars
    /\ [][\A s \in Slots : (OnClose(s) /\ ~mounted)
              => timers' = Append(timers, sockets[s].cid)]_vars
    /\ [][(TimerFire /\ ~mounted /\ ~CurrentLive) => CurrentConnecting']_vars
    /\ ((~mounted /\ CurrentClosed) ~> CurrentConnecting)

\* a socket of the disposed instance is connecting
C19_Witness == ~mounted /\ CurrentConnecting /\ timers = <<>>

TypeOK ==
    /\ clientId \in 0..MaxTime
    /\ now \in 0..MaxTime
    /\ Len(messages) <= MaxMsgs
    /\ input \in Inputs
    /\ isConnected \in BOOLEAN /\ isTyping \in BOOLEAN
    /\ wsCurrent \in Slots \cup {NoSocket}
    /\ Len(timers) <= MaxTimers
    /\ pendingDeletes \in 0..MaxDeletes
    /\ awaiting \in BOOLEAN /\ fresh \in BOOLEAN
    /\ run.stage \in -1..4
====
